---- MODULE Spec2Model ----
(***************************************************************************)
(* Chips Commerce API (src/main.py): a FastAPI router over a document      *)
(* store.  Every request is a coroutine; the only points where another     *)
(* request can run in between are the awaits on the store calls            *)
(* get_documents and create_document, so every store call is one atomic    *)
(* step of the model and a handler is the sequence of its store calls.     *)
(*                                                                         *)
(* Money: prices are counted in sixteenths of a currency unit (dyadic      *)
(* values, on which the float arithmetic of create_order is exact) and     *)
(* subtotals in hundredths, so round(x, 2) is a real conversion.           *)
(***************************************************************************)
EXTENDS Integers, Sequences, FiniteSets, TLC

VARIABLES product, order, nextId, req, pc, inserted, resp, calls

vars == <<product, order, nextId, req, pc, inserted, resp, calls>>

(* ------------------------------ bounds --------------------------------- *)

\* requests that may overlap in Spec, SpecFail and SpecLoaded
MaxReqs == 2

\* requests that run one after another in SpecSeq
MaxSeqReqs == 3

\* items of one submitted order
MaxItems == 2

(* ------------------------- program constants --------------------------- *)

\* get_documents("product", filter_q, limit=100)
ListLimit == 100

\* get_documents("product", {}, limit=1)
SeedProbeLimit == 1

\* HTTPException(status_code=400, ...)
BadRequest == 400

(* ------------------------------ inputs --------------------------------- *)

Max(a, b) == IF a > b THEN a ELSE b

Slots == 1..Max(MaxReqs, MaxSeqReqs)

\* Optional[str]: {} is None, {s} is the string s
CategoryArgs == {{}, {""}, {"potato"}, {"kettle"}}

ProductInputs ==
    { [title |-> "Classic Salted Potato Chips", category |-> "potato"],
      [title |-> "Blue Corn Rounds", category |-> "tortilla"] }

\* price in sixteenths: 3/16 and 1/16
ItemInputs == { [price |-> 3, quantity |-> 1], [price |-> 1, quantity |-> 2] }

\* client-submitted subtotals, in hundredths
ClientSubtotals == {0, 19}

RECURSIVE SeqsUpTo(_, _)
SeqsUpTo(S, n) ==
    IF n = 0 THEN {<<>>}
    ELSE LET shorter == SeqsUpTo(S, n - 1)
         IN shorter \cup {Append(s, x) : s \in {t \in shorter : Len(t) = n - 1}, x \in S}

OrderInputs ==
    { [items |-> s, subtotal |-> t] : s \in SeqsUpTo(ItemInputs, MaxItems),
                                     t \in ClientSubtotals }

NoProduct == [title |-> "", category |-> ""]
NoOrder == [items |-> <<>>, subtotal |-> 0]

Request(kind, category, p, o) ==
    [kind |-> kind, category |-> category, product |-> p, order |-> o]

NoRequest == Request("none", {}, NoProduct, NoOrder)

NoResp == [status |-> 0, inserted |-> 0, docs |-> {}, detail |-> ""]

\* documents already in the product collection when the service starts
BulkProduct == [title |-> "Bulk Crisps", category |-> "potato"]

(* ------------------------ the document store --------------------------- *)

\* a stored document: the data as given plus the id the store assigns
create_document(collection, data, id) ==
    IF collection = "product"
    THEN [id |-> id, title |-> data.title, category |-> data.category]
    ELSE [id |-> id, items |-> data.items, subtotal |-> data.subtotal]

\* a filter is a set of required category values: {} is the empty filter {}
Matches(doc, filter_q) == \A c \in filter_q : doc.category = c

\* the k-element subsets of S, built by taking k or by leaving out the rest
RECURSIVE Taking(_, _)
Taking(S, k) ==
    IF k = 0 THEN {{}}
    ELSE UNION { { T \cup {x} : T \in Taking({y \in S : y.id > x.id}, k - 1) } : x \in S }

KSubsets(S, k) ==
    IF 2 * k <= Cardinality(S)
    THEN Taking(S, k)
    ELSE { S \ D : D \in Taking(S, Cardinality(S) - k) }

\* the results the store may give: all matching documents when they fit the
\* limit, and otherwise any `limit` of them (no sort order is asked for)
get_documents(collection, filter_q, limit) ==
    LET matching == {d \in collection : Matches(d, filter_q)}
    IN  IF Cardinality(matching) <= limit
        THEN {matching}
        ELSE KSubsets(matching, limit)

(* -------------------------- pure helpers -------------------------------- *)

\* `if category`: None and the empty string are both falsy
Truthy(category) == \E s \in category : s # ""

\* slip: `if category is not None`, so the empty string filters too
FilterForNotNone(category) == category

\* filter_q = {"category": category} if category else {}
FilterFor(category) == IF Truthy(category) THEN category ELSE {}

chips ==
    << [title |-> "Classic Salted Potato Chips", category |-> "potato"],
       [title |-> "Spicy Tortilla Chips", category |-> "tortilla"],
       [title |-> "Cheddar Ridges", category |-> "potato"],
       [title |-> "Sea Salt Kettle Chips", category |-> "kettle"] >>

\* subtotal = 0.0; for item in order.items: subtotal += item.price * item.quantity
RECURSIVE SumItems(_)
SumItems(items) ==
    IF items = <<>> THEN 0
    ELSE SumItems(SubSeq(items, 1, Len(items) - 1))
         + items[Len(items)].price * items[Len(items)].quantity

\* round(x, 2) for x sixteenths, in hundredths: x/16 = (25x/4)/100, to the
\* nearest hundredth, an exact tie going to the even one
Round2(x) ==
    LET q == (25 * x) \div 4
        r == (25 * x) % 4
    IN  IF r < 2 THEN q
        ELSE IF r > 2 THEN q + 1
        ELSE IF q % 2 = 0 THEN q ELSE q + 1

\* slip: the submitted subtotal is kept
SubmittedSubtotal(o) == o.subtotal

\* order.subtotal = round(subtotal, 2)
RecomputedSubtotal(o) == Round2(SumItems(o.items))

(* ---------------------------- the state --------------------------------- *)

Init ==
    /\ product = {}
    /\ order = {}
    /\ nextId = 1
    /\ req = [r \in Slots |-> NoRequest]
    /\ pc = [r \in Slots |-> "idle"]
    /\ inserted = [r \in Slots |-> 0]
    /\ resp = [r \in Slots |-> NoResp]
    /\ calls = [r \in Slots |-> 0]

Preload(n) == { create_document("product", BulkProduct, i) : i \in 1..n }

\* the service starts on a store that may already hold products
InitLoaded ==
    /\ \E n \in {0, ListLimit} :
         /\ product = Preload(n)
         /\ nextId = n + 1
    /\ order = {}
    /\ req = [r \in Slots |-> NoRequest]
    /\ pc = [r \in Slots |-> "idle"]
    /\ inserted = [r \in Slots |-> 0]
    /\ resp = [r \in Slots |-> NoResp]
    /\ calls = [r \in Slots |-> 0]

Entry(kind) ==
    CASE kind = "list_products" -> "list_get"
      [] kind = "create_product" -> "product_insert"
      [] kind = "seed_products" -> "seed_check"
      [] kind = "create_order" -> "order_validate"
      [] OTHER -> "static"

InFlight(r) == pc[r] \notin {"idle", "done", "failed"}

\* the router hands request `q` to its handler, in slot r
Accept(r, q) ==
    /\ pc[r] = "idle"
    /\ \A s \in Slots : s < r => pc[s] # "idle"
    /\ req' = [req EXCEPT ![r] = q]
    /\ pc' = [pc EXCEPT ![r] = Entry(q.kind)]
    /\ UNCHANGED <<product, order, nextId, inserted, resp, calls>>

Finish(r, response) ==
    /\ pc' = [pc EXCEPT ![r] = "done"]
    /\ resp' = [resp EXCEPT ![r] = response]

(* ---------------------------- handlers ---------------------------------- *)

ReceiveList(r) ==
    /\ \E c \in CategoryArgs : Accept(r, Request("list_products", c, NoProduct, NoOrder))

list_products(r) ==
    /\ pc[r] = "list_get"
    /\ \E docs \in get_documents(product, FilterFor(req[r].category), ListLimit) :
         Finish(r, [NoResp EXCEPT !.status = 200, !.docs = docs])
    /\ calls' = [calls EXCEPT ![r] = @ + 1]
    /\ UNCHANGED <<product, order, nextId, req, inserted>>

ReceiveProduct(r) ==
    /\ \E p \in ProductInputs : Accept(r, Request("create_product", {}, p, NoOrder))

\* slip: the document goes to a collection the listing does not read
create_product_elsewhere(r) ==
    /\ pc[r] = "product_insert"
    /\ Finish(r, [NoResp EXCEPT !.status = 200,
                                !.docs = {create_document("product", req[r].product, nextId)}])
    /\ nextId' = nextId + 1
    /\ calls' = [calls EXCEPT ![r] = @ + 1]
    /\ UNCHANGED <<product, order, req, inserted>>

\* slip: a product whose title is stored already is not stored again
create_product_once(r) ==
    /\ pc[r] = "product_insert"
    /\ LET doc == create_document("product", req[r].product, nextId)
       IN  /\ product' = IF \E d \in product : d.title = doc.title
                         THEN product ELSE product \cup {doc}
           /\ Finish(r, [NoResp EXCEPT !.status = 200, !.docs = {doc}])
    /\ nextId' = nextId + 1
    /\ calls' = [calls EXCEPT ![r] = @ + 1]
    /\ UNCHANGED <<order, req, inserted>>

\* slip: the new document replaces the stored ones of the same title
create_product_replace(r) ==
    /\ pc[r] = "product_insert"
    /\ LET doc == create_document("product", req[r].product, nextId)
       IN  /\ product' = {d \in product : d.title # doc.title} \cup {doc}
           /\ Finish(r, [NoResp EXCEPT !.status = 200, !.docs = {doc}])
    /\ nextId' = nextId + 1
    /\ calls' = [calls EXCEPT ![r] = @ + 1]
    /\ UNCHANGED <<order, req, inserted>>

create_product(r) ==
    /\ pc[r] = "product_insert"
    /\ LET doc == create_document("product", req[r].product, nextId)
       IN  /\ product' = product \cup {doc}
           /\ Finish(r, [NoResp EXCEPT !.status = 200, !.docs = {doc}])
    /\ nextId' = nextId + 1
    /\ calls' = [calls EXCEPT ![r] = @ + 1]
    /\ UNCHANGED <<order, req, inserted>>

ReceiveSeed(r) ==
    /\ Accept(r, Request("seed_products", {}, NoProduct, NoOrder))

\* slip: the result of the existence check is not looked at
seed_check_blind(r) ==
    /\ pc[r] = "seed_check"
    /\ pc' = [pc EXCEPT ![r] = "seed_insert"]
    /\ calls' = [calls EXCEPT ![r] = @ + 1]
    /\ UNCHANGED <<product, order, nextId, req, inserted, resp>>

\* slip: the check asks whether the whole fixed set is there
seed_check_counting(r) ==
    /\ pc[r] = "seed_check"
    /\ IF Cardinality(product) >= Len(chips)
       THEN Finish(r, [NoResp EXCEPT !.status = 200, !.inserted = 0,
                                     !.detail = "Products already seeded"])
       ELSE /\ pc' = [pc EXCEPT ![r] = "seed_insert"]
            /\ resp' = resp
    /\ calls' = [calls EXCEPT ![r] = @ + 1]
    /\ UNCHANGED <<product, order, nextId, req, inserted>>

\* existing = await get_documents("product", {}, limit=1); if existing: return ...
seed_check(r) ==
    /\ pc[r] = "seed_check"
    /\ \E existing \in get_documents(product, {}, SeedProbeLimit) :
         IF existing # {}
         THEN Finish(r, [NoResp EXCEPT !.status = 200, !.inserted = 0,
                                       !.detail = "Products already seeded"])
         ELSE /\ pc' = [pc EXCEPT ![r] = "seed_insert"]
              /\ resp' = resp
    /\ calls' = [calls EXCEPT ![r] = @ + 1]
    /\ UNCHANGED <<product, order, nextId, req, inserted>>

\* slip: a fixed record that is stored already is skipped
seed_insert_if_absent(r) ==
    /\ pc[r] = "seed_insert"
    /\ inserted[r] < Len(chips)
    /\ LET c == chips[inserted[r] + 1]
           absent == \A d \in product : d.title # c.title
       IN  /\ product' = IF absent
                         THEN product \cup {create_document("product", c, nextId)}
                         ELSE product
           /\ nextId' = IF absent THEN nextId + 1 ELSE nextId
    /\ inserted' = [inserted EXCEPT ![r] = @ + 1]
    /\ calls' = [calls EXCEPT ![r] = @ + 1]
    /\ IF inserted[r] + 1 = Len(chips)
       THEN Finish(r, [NoResp EXCEPT !.status = 200, !.inserted = inserted[r] + 1])
       ELSE UNCHANGED <<pc, resp>>
    /\ UNCHANGED <<order, req>>

\* one turn of `for c in chips: await create_document("product", c); inserted += 1`
\* and, after the last one, return {"inserted": inserted}
seed_insert(r) ==
    /\ pc[r] = "seed_insert"
    /\ inserted[r] < Len(chips)
    /\ product' = product \cup {create_document("product", chips[inserted[r] + 1], nextId)}
    /\ nextId' = nextId + 1
    /\ inserted' = [inserted EXCEPT ![r] = @ + 1]
    /\ calls' = [calls EXCEPT ![r] = @ + 1]
    /\ IF inserted[r] + 1 = Len(chips)
       THEN Finish(r, [NoResp EXCEPT !.status = 200, !.inserted = inserted[r] + 1])
       ELSE UNCHANGED <<pc, resp>>
    /\ UNCHANGED <<order, req>>

ReceiveOrder(r) ==
    /\ \E o \in OrderInputs : Accept(r, Request("create_order", {}, NoProduct, o))

\* slip: the order without items is stored like any other
create_order_unvalidated(r) ==
    /\ pc[r] = "order_validate"
    /\ req[r].order.items = <<>>
    /\ LET doc == create_document("order", req[r].order, nextId)
       IN  /\ order' = order \cup {doc}
           /\ Finish(r, [NoResp EXCEPT !.status = 200, !.docs = {doc}])
    /\ nextId' = nextId + 1
    /\ calls' = [calls EXCEPT ![r] = @ + 1]
    /\ UNCHANGED <<product, req, inserted>>

\* if not order.items: raise HTTPException(400, ...)
create_order_reject(r) ==
    /\ pc[r] = "order_validate"
    /\ req[r].order.items = <<>>
    /\ Finish(r, [NoResp EXCEPT !.status = BadRequest,
                                !.detail = "Order must contain at least one item"])
    /\ UNCHANGED <<product, order, nextId, req, inserted, calls>>

\* slip: the handler looks the products up before it stores the order
create_order_with_lookup(r) ==
    /\ pc[r] = "order_validate"
    /\ req[r].order.items # <<>>
    /\ LET checked == [req[r].order EXCEPT !.subtotal = Round2(SumItems(req[r].order.items))]
           doc == create_document("order", checked, nextId)
       IN  /\ order' = order \cup {doc}
           /\ Finish(r, [NoResp EXCEPT !.status = 200, !.docs = {doc}])
    /\ nextId' = nextId + 1
    /\ calls' = [calls EXCEPT ![r] = @ + 2]
    /\ UNCHANGED <<product, req, inserted>>

create_order(r) ==
    /\ pc[r] = "order_validate"
    /\ req[r].order.items # <<>>
    /\ LET checked == [req[r].order EXCEPT !.subtotal = RecomputedSubtotal(req[r].order)]
           doc == create_document("order", checked, nextId)
       IN  /\ order' = order \cup {doc}
           /\ Finish(r, [NoResp EXCEPT !.status = 200, !.docs = {doc}])
    /\ nextId' = nextId + 1
    /\ calls' = [calls EXCEPT ![r] = @ + 1]
    /\ UNCHANGED <<product, req, inserted>>

ReceiveStatic(r) ==
    /\ \E k \in {"read_root", "get_schema", "test_database"} :
         Accept(r, Request(k, {}, NoProduct, NoOrder))

read_root(r) ==
    /\ pc[r] = "static"
    /\ req[r].kind = "read_root"
    /\ Finish(r, [NoResp EXCEPT !.status = 200, !.detail = "Chips Commerce Backend Running"])
    /\ UNCHANGED <<product, order, nextId, req, inserted, calls>>

get_schema(r) ==
    /\ pc[r] = "static"
    /\ req[r].kind = "get_schema"
    /\ Finish(r, [NoResp EXCEPT !.status = 200, !.detail = "user, product, order"])
    /\ UNCHANGED <<product, order, nextId, req, inserted, calls>>

\* the diagnostic reads the connection handle and the environment only
test_database(r) ==
    /\ pc[r] = "static"
    /\ req[r].kind = "test_database"
    /\ \E database \in {"Connected & Working", "Connected but Error", "Available but not initialized"} :
         Finish(r, [NoResp EXCEPT !.status = 200, !.detail = database])
    /\ UNCHANGED <<product, order, nextId, req, inserted, calls>>

\* a store call of request r raises: the handler catches nothing, so the
\* framework ends the request with a server error
store_error(r) ==
    /\ pc[r] \in {"list_get", "product_insert", "seed_check", "seed_insert"}
    /\ pc' = [pc EXCEPT ![r] = "failed"]
    /\ resp' = [resp EXCEPT ![r] = [NoResp EXCEPT !.status = 500]]
    /\ calls' = [calls EXCEPT ![r] = @ + 1]
    /\ UNCHANGED <<product, order, nextId, req, inserted>>

(* ------------------------- specifications ------------------------------- *)

\* no request is being handled
Quiet == \A s \in Slots : ~InFlight(s)

\* up to MaxReqs overlapping requests on a store that answers every call
Next ==
    \E r \in 1..MaxReqs :
        \/ ReceiveList(r)
        \/ list_products(r)
        \/ ReceiveProduct(r)
        \/ create_product(r)
        \/ ReceiveSeed(r)
        \/ seed_check(r)
        \/ seed_insert(r)
        \/ ReceiveOrder(r)
        \/ create_order_reject(r)
        \/ create_order(r)
        \/ ReceiveStatic(r)
        \/ read_root(r)
        \/ get_schema(r)
        \/ test_database(r)

Spec == Init /\ [][Next]_vars

\* requests that touch only the product collection, one after another: a
\* request is accepted only when none is being handled
NextSeq ==
    \E r \in 1..MaxSeqReqs :
        \/ Quiet /\ ReceiveSeed(r)
        \/ seed_check(r)
        \/ seed_insert(r)
        \/ Quiet /\ ReceiveList(r)
        \/ list_products(r)
        \/ Quiet /\ ReceiveStatic(r)
        \/ read_root(r)
        \/ get_schema(r)
        \/ test_database(r)

SpecSeq == Init /\ [][NextSeq]_vars

\* overlapping product requests on a store whose calls may raise
NextFail ==
    \E r \in 1..MaxReqs :
        \/ ReceiveList(r)
        \/ list_products(r)
        \/ ReceiveProduct(r)
        \/ create_product(r)
        \/ ReceiveSeed(r)
        \/ seed_check(r)
        \/ seed_insert(r)
        \/ store_error(r)

SpecFail == Init /\ [][NextFail]_vars

\* overlapping product requests on a store that already holds products
NextLoaded ==
    \E r \in 1..MaxReqs :
        \/ ReceiveList(r)
        \/ list_products(r)
        \/ ReceiveProduct(r)
        \/ create_product(r)
        \/ ReceiveSeed(r)
        \/ seed_check(r)
        \/ seed_insert(r)

SpecLoaded == InitLoaded /\ [][NextLoaded]_vars

(* ------------------------------ claims ---------------------------------- *)

Handled(r, kind) == req[r].kind = kind /\ pc[r] = "done"

\* the stored product documents that carry the data p
Copies(p) == {d \in product : d.title = p.title /\ d.category = p.category}

Min(a, b) == IF a < b THEN a ELSE b

\* the total of an order's lines taken from the first line on, in sixteenths
RECURSIVE LinesTotal(_, _)
LinesTotal(items, i) ==
    IF i > Len(items) THEN 0
    ELSE items[i].price * items[i].quantity + LinesTotal(items, i + 1)

\* c hundredths is the two-decimal rounding of x sixteenths: no hundredth is
\* nearer to x/16 (|100x/16 - c| <= 1/2), and of two equally near ones c is even
IsRounded2(x, c) ==
    LET gap == 25 * x - 4 * c
    IN  /\ gap >= -2 /\ gap <= 2
        /\ (gap = 2 \/ gap = -2) => c % 2 = 0

\* C1: every stored order's subtotal is the two-decimal rounding of the sum of
\* price * quantity over its items, whatever subtotal the client submitted
C1_StoredSubtotalRecomputed ==
    /\ \A d \in order : IsRounded2(LinesTotal(d.items, 1), d.subtotal)
    /\ \A r \in Slots :
         Handled(r, "create_order") /\ resp[r].status = 200 =>
           \E d \in resp[r].docs :
             /\ d \in order
             /\ d.items = req[r].order.items
             /\ IsRounded2(LinesTotal(req[r].order.items, 1), d.subtotal)

\* an order of two lines of 3/16 (0.375, a tie) submitted with subtotal 0 is
\* stored with subtotal 0.38
C1_Witness ==
    \E r \in Slots :
      /\ Handled(r, "create_order")
      /\ req[r].order.subtotal = 0
      /\ Len(req[r].order.items) = 2
      /\ \E d \in order : d \in resp[r].docs /\ d.subtotal = 38

\* C2: a create_order request with no items ends in the 400 error, makes no
\* store call and leaves both collections as they were
C2_EmptyOrderRejected ==
    [][\A r \in Slots :
         (/\ pc[r] = "order_validate"
          /\ req[r].order.items = << >>
          /\ pc'[r] # pc[r])
         => /\ pc'[r] = "done"
            /\ resp'[r].status = BadRequest
            /\ resp'[r].detail = "Order must contain at least one item"
            /\ resp'[r].docs = {}
            /\ calls'[r] = 0
            /\ product' = product
            /\ order' = order
            /\ nextId' = nextId]_vars

\* an empty order was rejected while another order is in the store
C2_Witness ==
    \E r \in Slots :
      /\ Handled(r, "create_order")
      /\ req[r].order.items = << >>
      /\ resp[r].status = BadRequest
      /\ calls[r] = 0
      /\ Cardinality(order) = 1

\* C3: of seed calls that run one after another from an empty product
\* collection, the first one reports inserted: 4 and every later one
\* inserted: 0, and once a seed call has returned the collection holds
\* exactly the 4 fixed records, each once
C3_SequentialSeedsInsertOnce ==
    \A r \in Slots :
      Handled(r, "seed_products") =>
        /\ resp[r].inserted =
             IF \E s \in Slots : s < r /\ req[s].kind = "seed_products" THEN 0 ELSE Len(chips)
        /\ Quiet =>
             /\ Cardinality(product) = Len(chips)
             /\ \A i \in 1..Len(chips) : Cardinality(Copies(chips[i])) = 1

\* three seed calls have returned one after another
C3_Witness ==
    /\ Cardinality({r \in Slots : Handled(r, "seed_products")}) >= 3
    /\ \E r \in Slots : Handled(r, "seed_products") /\ resp[r].inserted = Len(chips)
    /\ \E r \in Slots : Handled(r, "seed_products") /\ resp[r].inserted = 0
    /\ Cardinality(product) = Len(chips)

\* what list_products answers with, for the category the client gave, when
\* `given` says which categories ask for a filter
ListAnswersFor(r, filtered) ==
    LET wanted == IF filtered
                  THEN {d \in product : \A c \in req[r].category : d.category = c}
                  ELSE product
    IN  /\ resp'[r].docs \subseteq wanted
        /\ Cardinality(resp'[r].docs) = Min(ListLimit, Cardinality(wanted))

ListReturns(r) == pc[r] = "list_get" /\ pc'[r] = "done"

\* C4 as claimed: for every category string, list_products returns only
\* products of that category, min(100, n) of the n stored ones
C4_AsClaimed ==
    [][\A r \in Slots : ListReturns(r) => ListAnswersFor(r, req[r].category # {})]_vars

\* C4: for every non-empty category string list_products returns only products
\* of that category, min(100, n) of the n stored ones; with no category, or
\* with the empty string, it returns min(100, n) of all n stored products
C4_ListProductsFilter ==
    [][\A r \in Slots :
         ListReturns(r) => ListAnswersFor(r, req[r].category \notin {{}, {""}})]_vars

\* a listing by category was cut to 100 of 101 matching products
C4_Witness ==
    \E r \in Slots :
      /\ Handled(r, "list_products")
      /\ req[r].category = {"potato"}
      /\ Cardinality(resp[r].docs) = ListLimit
      /\ Cardinality({d \in product : d.category = "potato"}) = ListLimit + 1
      /\ \A d \in resp[r].docs : d.category = "potato"

\* the documents create_product requests have returned so far
Created == UNION {resp[s].docs : s \in {t \in Slots : Handled(t, "create_product")}}

\* C5 as claimed: a list_products without a category that reads the store
\* after a create_product has returned includes the created record
C5_AsClaimed ==
    [][\A r \in Slots :
         ListReturns(r) /\ req[r].category = {} => Created \subseteq resp'[r].docs]_vars

\* C5: a list_products without a category that reads the store after a
\* create_product has returned includes the created record, provided the
\* product collection holds at most 100 documents at that read
C5_CreatedThenListed ==
    [][\A r \in Slots :
         (/\ ListReturns(r)
          /\ req[r].category = {}
          /\ Cardinality(product) <= ListLimit)
         => Created \subseteq resp'[r].docs]_vars

\* a listing without a category holds a record a create_product returned
C5_Witness ==
    \E r \in Slots :
      /\ Handled(r, "list_products")
      /\ req[r].category = {}
      /\ Created # {}
      /\ Created \subseteq resp[r].docs

\* the seed calls that have inserted the i-th fixed record
SeededBy(i) == {r \in Slots : req[r].kind = "seed_products" /\ inserted[r] >= i}

\* C6: a seed call that found the collection empty inserts all 4 fixed
\* records whatever other calls insert meanwhile: every returned seed call
\* reports the 4 or the 0 records it inserted, and each fixed record is stored
\* once per seed call that inserted it, so two overlapping calls store 8
C6_EveryPassingSeedInserts ==
    /\ \A r \in Slots :
         Handled(r, "seed_products") =>
           /\ resp[r].inserted = inserted[r]
           /\ inserted[r] \in {0, Len(chips)}
    /\ \A i \in 1..Len(chips) :
         Cardinality(Copies(chips[i])) >= Cardinality(SeededBy(i))
    /\ (\A r \in Slots : req[r].kind \in {"none", "seed_products"}) =>
         \A i \in 1..Len(chips) :
           Cardinality(Copies(chips[i])) = Cardinality(SeededBy(i))

\* two seed calls both reported inserted: 4 and the collection holds 8 seed
\* records, each fixed record twice
C6_Witness ==
    /\ \E r, s \in Slots :
         /\ r # s
         /\ Handled(r, "seed_products") /\ resp[r].inserted = Len(chips)
         /\ Handled(s, "seed_products") /\ resp[s].inserted = Len(chips)
    /\ Cardinality(product) = 2 * Len(chips)
    /\ \A i \in 1..Len(chips) : Cardinality(Copies(chips[i])) = 2

NoSeeds == \A r \in Slots : req[r].kind # "seed_products"

\* the create requests that have returned, by what they submitted
ProductsSent(p) == {r \in Slots : Handled(r, "create_product") /\ req[r].product = p}
OrdersSent(items) ==
    {r \in Slots : Handled(r, "create_order") /\ req[r].order.items = items /\ items # << >>}

\* C7: without seed calls, whatever the interleaving, the collections hold
\* what running the returned requests one at a time stores: one document per
\* returned create_product, with its data, and one per returned create_order
\* with items, with its items and the recomputed subtotal, and nothing else
C7_InterleavingsAreSerial ==
    NoSeeds =>
      /\ \A p \in ProductInputs : Cardinality(Copies(p)) = Cardinality(ProductsSent(p))
      /\ Cardinality(product) = Cardinality({r \in Slots : Handled(r, "create_product")})
      /\ \A items \in SeqsUpTo(ItemInputs, MaxItems) :
           Cardinality({d \in order : d.items = items /\ IsRounded2(LinesTotal(items, 1), d.subtotal)})
             = Cardinality(OrdersSent(items))
      /\ Cardinality(order) =
           Cardinality({r \in Slots : Handled(r, "create_order") /\ resp[r].status = 200})

\* two create requests overlapped: the one accepted later stored first
C7_Witness ==
    /\ NoSeeds
    /\ \E r, s \in Slots :
         /\ r < s
         /\ Handled(r, "create_product")
         /\ Handled(s, "create_order")
         /\ \E d \in resp[r].docs, e \in resp[s].docs :
              d \in product /\ e \in order /\ e.id < d.id

\* C8 as claimed: at most one store call per request, two for seed_products
C8_AsClaimed ==
    \A r \in Slots : calls[r] <= IF req[r].kind = "seed_products" THEN 2 ELSE 1

\* C8: at most one store call per request, except seed_products, which makes
\* at most five: the existence check and one insert per fixed record
C8_StoreCallsPerRequest ==
    \A r \in Slots :
      /\ calls[r] <= IF req[r].kind = "seed_products" THEN 1 + Len(chips) ELSE 1
      /\ req[r].kind \in {"read_root", "get_schema", "test_database"} => calls[r] = 0

\* a seed call returned after five store calls, an order after one
C8_Witness ==
    /\ \E r \in Slots : Handled(r, "seed_products") /\ calls[r] = 1 + Len(chips)
    /\ \E r \in Slots : Handled(r, "create_order") /\ calls[r] = 1

\* C9: a stored document stays stored, unchanged; accepting a request,
\* list_products and the three static handlers leave both collections alone;
\* create_product adds one document to product only, and create_order one to
\* order only, or nothing when it rejects
C9_AppendOnly ==
    [][/\ product \subseteq product'
       /\ order \subseteq order'
       /\ \A r \in Slots :
            pc'[r] # pc[r] =>
              CASE pc[r] \in {"idle", "list_get", "static"} ->
                     product' = product /\ order' = order
                [] pc[r] = "product_insert" ->
                     /\ Cardinality(product') = Cardinality(product) + 1
                     /\ order' = order
                [] pc[r] = "order_validate" ->
                     /\ product' = product
                     /\ Cardinality(order') = Cardinality(order)
                          + (IF resp'[r].status = 200 THEN 1 ELSE 0)
                     /\ resp'[r].status = 200 <=> req[r].order.items # << >>
                [] OTHER -> order' = order]_vars

\* a product was stored, an order was stored after it, and the product is
\* still in its collection as create_product returned it
C9_Witness ==
    \E r, s \in Slots :
      /\ Handled(r, "create_product")
      /\ Handled(s, "create_order")
      /\ \E d \in resp[r].docs, e \in resp[s].docs :
           d \in product /\ e \in order /\ d.id < e.id

\* C10: a seed call whose existence check runs on a product collection that
\* is not empty returns inserted: 0 at once and leaves the collection as it
\* is, and a seed call that returned inserted: 0 has inserted nothing
C10_SeedSkipsNonEmpty ==
    [][\A r \in Slots :
         /\ (/\ pc[r] = "seed_check"
             /\ pc'[r] \notin {"seed_check", "failed"}
             /\ product # {})
            => /\ pc'[r] = "done"
               /\ resp'[r].inserted = 0
               /\ product' = product
         /\ Handled(r, "seed_products") /\ resp[r].inserted = 0
            => /\ inserted[r] = 0
               /\ calls[r] = 1
               /\ inserted'[r] = 0
               /\ pc'[r] = "done"]_vars

\* a seed call failed after part of the fixed set, and a later seed call
\* returned inserted: 0 on the partial set
C10_Witness ==
    \E f, r \in Slots :
      /\ req[f].kind = "seed_products" /\ pc[f] = "failed"
      /\ inserted[f] > 0 /\ inserted[f] < Len(chips)
      /\ Handled(r, "seed_products") /\ resp[r].inserted = 0
      /\ Cardinality(product) = inserted[f]
      /\ Copies(chips[Len(chips)]) = {}

====
